---------------------------- MODULE Spec2Model ----------------------------
(***************************************************************************)
(* The Streamlit FP&A scripts of the repository as a state machine.  One   *)
(* script run is a walk of pc through the script's statements; the cohort  *)
(* retention computation of Cohort_Analysis/app.py is modelled value by    *)
(* value (dates, monthly periods, the pivot table, the retention rates and *)
(* the churn outliers); the other scripts are modelled by their control    *)
(* flow and by what they show, read and send.                              *)
(***************************************************************************)
EXTENDS Integers, FiniteSets, Sequences, TLC

VARIABLES
    key,             \* GROQ_API_KEY as os.getenv returns it
    app,             \* the script being run
    pc,              \* the statement the run is at
    status,          \* "idle", "running", "finished", "stopped" or the exception raised
    upload,          \* the file the uploader returned in this run
    sales_data,      \* the DataFrame read from the upload, with its derived columns
    cohort_counts,   \* the pivot table
    cohort_sizes,    \* its first column
    retention_rate,  \* the pivot table divided by cohort_sizes
    extreme_churn,   \* distinct customers per calendar month
    churn_outliers,  \* the months above mean + 2 std
    cohort_summary,  \* the text handed to the LLM
    shown,           \* what the run has put on the page
    files_read,      \* uploads parsed in this run
    llm_calls,       \* chat completions requested in this run
    session_state,   \* st.session_state of the company FP&A tool, kept across its runs
    local            \* the names the company FP&A tool's run has bound, and its report

vars == <<key, app, pc, status, upload, sales_data, cohort_counts, cohort_sizes,
          retention_rate, extreme_churn, churn_outliers, cohort_summary, shown,
          files_read, llm_calls, session_state, local>>

---------------------------------------------------------------------------
(* Bounds of the uploaded tables. *)

\* calendar months a table of Spec may cover
NumMonths == 3
\* calendar months a table of SpecChurn may cover
NumChurnMonths == 7
\* first month of the calendar, as a monthly period ordinal: December 2022, so that
\* the calendar crosses a year end and begins with two months of 31 days
CalendarStart == (2022 - 1970) * 12 + 11
Customers == {"A", "B"}
Days == {1, 31}
\* customers of the tables of SpecChurn, in the order they are added to a month
ChurnCustomers == <<"A", "B", "C">>

IsLeap(y) == (y % 4 = 0 /\ y % 100 # 0) \/ y % 400 = 0

DaysInMonth(y, m) ==
    IF m = 2 THEN (IF IsLeap(y) THEN 29 ELSE 28)
    ELSE IF m \in {4, 6, 9, 11} THEN 30 ELSE 31

\* the Timestamp of day d of the month with period ordinal o
DateOf(o, d) == [y |-> 1970 + (o \div 12), m |-> (o % 12) + 1, d |-> d]

ValidDates(ords, days) ==
    UNION {{DateOf(o, d) : d \in {e \in days : e <= DaysInMonth(1970 + (o \div 12), (o % 12) + 1)}} :
              o \in ords}

Row(c, date) == [Customer_ID |-> c, Date |-> date]

\* every non-empty table over the calendar of Spec
Tables ==
    LET dates == ValidDates(CalendarStart .. (CalendarStart + NumMonths - 1), Days)
    IN  (SUBSET {Row(c, t) : c \in Customers, t \in dates}) \ {{}}

\* the tables of SpecChurn: month i has the first n[i] customers, each on day 1
ChurnTables ==
    LET ords == CalendarStart .. (CalendarStart + NumChurnMonths - 1)
        MonthRows(n, o) == {Row(ChurnCustomers[i], DateOf(o, 1)) : i \in 1 .. n[o]}
    IN  {UNION {MonthRows(n, o) : o \in ords} : n \in [ords -> 0 .. Len(ChurnCustomers)]} \ {{}}

RequiredColumns == {"Customer_ID", "Date"}

\* the sheet as read: the rows restricted to the columns the sheet has
Sheet(cols, rows) == [columns |-> cols, rows |-> {[c \in cols |-> r[c]] : r \in rows}]

Uploads == {Sheet(RequiredColumns, t) : t \in Tables}
             \cup {Sheet(cols, t) : cols \in (SUBSET RequiredColumns) \ {RequiredColumns},
                                    t \in Tables}

ChurnUploads == {Sheet(RequiredColumns, t) : t \in ChurnTables}

\* the transactions of the worked example: (A, 2023-01-05), (A, 2023-02-10),
\* (B, 2023-01-20), (B, 2023-03-01)
ExampleTable ==
    {Row("A", [y |-> 2023, m |-> 1, d |-> 5]), Row("A", [y |-> 2023, m |-> 2, d |-> 10]),
     Row("B", [y |-> 2023, m |-> 1, d |-> 20]), Row("B", [y |-> 2023, m |-> 3, d |-> 1])}

\* the dates of the example, the last day of January with the first of February,
\* and the last day of the year before
ExampleDates ==
    {r.Date : r \in ExampleTable}
        \cup {[y |-> 2023, m |-> 1, d |-> 31], [y |-> 2023, m |-> 2, d |-> 1],
              [y |-> 2022, m |-> 12, d |-> 31]}

\* every non-empty table of the two customers over the dates of the example
ExampleUploads ==
    {Sheet(RequiredColumns, t) :
        t \in (SUBSET {Row(c, d) : c \in Customers, d \in ExampleDates}) \ {{}}}

NoFile == [columns |-> {}, rows |-> {}]

---------------------------------------------------------------------------
(* pandas: timestamps, periods, group-by, pivot.                           *)

DateLE(a, b) ==
    \/ a.y < b.y
    \/ a.y = b.y /\ a.m < b.m
    \/ a.y = b.y /\ a.m = b.m /\ a.d <= b.d

MinDate(S) == CHOOSE a \in S : \A b \in S : DateLE(a, b)
MaxDate(S) == CHOOSE a \in S : \A b \in S : DateLE(b, a)

\* Series.dt.to_period('M'): the ordinal of the month holding the timestamp
ToPeriodM(t) == (t.y - 1970) * 12 + (t.m - 1)

\* (Period - Period).n
PeriodDiffReversed(p, q) == q - p
PeriodDiffN(p, q) == p - q

\* groupby(by)[col].transform('min') at one row: the minimum over the row's group
GroupTransformMax(rows, by, col, r) == MaxDate({s[col] : s \in {s \in rows : s[by] = r[by]}})
GroupTransformMin(rows, by, col, r) == MinDate({s[col] : s \in {s \in rows : s[by] = r[by]}})

\* df[name] = values, a value for every row
WithColumn(rows, name, values) ==
    {[c \in (DOMAIN r) \cup {name} |-> IF c = name THEN values[r] ELSE r[c]] : r \in rows}

HasColumn(frame, name) == name \in frame.columns

\* lines 32-34 in the order PurchaseMonth, CohortMonth, CohortIndex
DeriveColumnsPurchaseFirst(frame) ==
    IF ~HasColumn(frame, "Date") THEN [frame |-> frame, error |-> "KeyError"]
    ELSE LET r33 == WithColumn(frame.rows, "PurchaseMonth", [r \in frame.rows |-> ToPeriodM(r["Date"])])
             f33 == [columns |-> frame.columns \cup {"PurchaseMonth"}, rows |-> r33]
         IN  IF ~HasColumn(frame, "Customer_ID") THEN [frame |-> f33, error |-> "KeyError"]
             ELSE LET r32 == WithColumn(r33, "CohortMonth",
                                [r \in r33 |-> ToPeriodM(GroupTransformMin(r33, "Customer_ID", "Date", r))])
                      r34 == WithColumn(r32, "CohortIndex",
                                [r \in r32 |-> PeriodDiffN(r["PurchaseMonth"], r["CohortMonth"])])
                  IN  [frame |-> [columns |-> frame.columns
                                       \cup {"CohortMonth", "PurchaseMonth", "CohortIndex"},
                                  rows |-> r34],
                       error |-> "none"]

RECURSIVE DaysBeforeMonth(_, _)
DaysBeforeMonth(y, m) == IF m = 1 THEN 0 ELSE DaysBeforeMonth(y, m - 1) + DaysInMonth(y, m - 1)

LeapYearsBefore(y) == ((y - 1) \div 4) - ((y - 1) \div 100) + ((y - 1) \div 400)

\* days from 1970-01-01 to the timestamp
DayNumber(t) ==
    365 * (t.y - 1970) + (LeapYearsBefore(t.y) - LeapYearsBefore(1970))
        + DaysBeforeMonth(t.y, t.m) + (t.d - 1)

\* lines 32-34 with CohortIndex = (Date - first Date).days // 30
DeriveColumnsByDays(frame) ==
    IF ~HasColumn(frame, "Customer_ID") \/ ~HasColumn(frame, "Date")
    THEN [frame |-> frame, error |-> "KeyError"]
    ELSE LET r32 == WithColumn(frame.rows, "CohortMonth",
                       [r \in frame.rows |->
                           ToPeriodM(GroupTransformMin(frame.rows, "Customer_ID", "Date", r))])
             r33 == WithColumn(r32, "PurchaseMonth", [r \in r32 |-> ToPeriodM(r["Date"])])
             r34 == WithColumn(r33, "CohortIndex",
                       [r \in r33 |->
                           (DayNumber(r["Date"])
                              - DayNumber(GroupTransformMin(r33, "Customer_ID", "Date", r))) \div 30])
         IN  [frame |-> [columns |-> frame.columns
                              \cup {"CohortMonth", "PurchaseMonth", "CohortIndex"},
                         rows |-> r34],
              error |-> "none"]

\* sales_data['CohortMonth'] = groupby('Customer_ID')['Date'].transform('min').dt.to_period('M')
\* sales_data['PurchaseMonth'] = sales_data['Date'].dt.to_period('M')
\* sales_data['CohortIndex'] = (PurchaseMonth - CohortMonth).apply(attrgetter('n'))
\* A column the frame lacks raises KeyError at the statement that reads it, and the
\* statements after it do not run.
DeriveColumns(frame) ==
    IF ~HasColumn(frame, "Customer_ID") \/ ~HasColumn(frame, "Date")
    THEN [frame |-> frame, error |-> "KeyError"]
    ELSE LET r32 == WithColumn(frame.rows, "CohortMonth",
                       [r \in frame.rows |->
                           ToPeriodM(GroupTransformMin(frame.rows, "Customer_ID", "Date", r))])
             r33 == WithColumn(r32, "PurchaseMonth", [r \in r32 |-> ToPeriodM(r["Date"])])
             r34 == WithColumn(r33, "CohortIndex",
                       [r \in r33 |-> PeriodDiffN(r["PurchaseMonth"], r["CohortMonth"])])
         IN  [frame |-> [columns |-> frame.columns
                              \cup {"CohortMonth", "PurchaseMonth", "CohortIndex"},
                         rows |-> r34],
              error |-> "none"]

\* A pivot table: its row labels, its column labels and its cells.  A cell that is
\* NaN is a pair outside the domain of cell.
EmptyFrame == [index |-> {}, columns |-> {}, cell |-> <<>>]
EmptySeries == <<>>

IsNaN(frame, c, k) == <<c, k>> \notin DOMAIN frame.cell

\* pivot_table with aggfunc='count': the rows of each (index, columns) group
PivotCountRows(rows, idx, col, val) ==
    [index   |-> {r[idx] : r \in rows},
     columns |-> {r[col] : r \in rows},
     cell    |-> [g \in {<<r[idx], r[col]>> : r \in rows} |->
                    Cardinality({r \in rows : r[idx] = g[1] /\ r[col] = g[2]})]]

\* pivot_table with aggfunc='nunique' and fill_value=0
PivotNuniqueFillZero(rows, idx, col, val) ==
    [index   |-> {r[idx] : r \in rows},
     columns |-> {r[col] : r \in rows},
     cell    |-> [g \in {r[idx] : r \in rows} \X {r[col] : r \in rows} |->
                    Cardinality({r[val] : r \in {s \in rows : s[idx] = g[1] /\ s[col] = g[2]}})]]

\* pivot_table(index=idx, columns=col, values=val, aggfunc='nunique'): one cell per
\* (idx, col) pair that occurs in a row, holding the number of distinct val of the
\* rows of that pair; the other cells are NaN
PivotNunique(rows, idx, col, val) ==
    [index   |-> {r[idx] : r \in rows},
     columns |-> {r[col] : r \in rows},
     cell    |-> [g \in {<<r[idx], r[col]>> : r \in rows} |->
                    Cardinality({r[val] : r \in {s \in rows : s[idx] = g[1] /\ s[col] = g[2]}})]]

MinOf(S) == CHOOSE a \in S : \A b \in S : a <= b
MaxOf(S) == CHOOSE a \in S : \A b \in S : a >= b

\* the labels of a pivot table are sorted ascending: position 0 is the least label
ColumnAt(frame, k) ==
    [c \in {c \in frame.index : ~IsNaN(frame, c, k)} |-> frame.cell[<<c, k>>]]

\* frame.iloc[:, -1]
LastColumn(frame) == ColumnAt(frame, MaxOf(frame.columns))
\* frame.iloc[:, 0]
FirstColumn(frame) == ColumnAt(frame, MinOf(frame.columns))

\* the rates made non-increasing along each row (a running minimum over the indices)
DivideMonotone(frame, series) ==
    [index   |-> frame.index,
     columns |-> frame.columns,
     cell    |-> [g \in {h \in DOMAIN frame.cell : h[1] \in DOMAIN series} |->
                    [num |-> MinOf({frame.cell[h] : h \in {j \in DOMAIN frame.cell :
                                                            j[1] = g[1] /\ j[2] <= g[2]}}),
                     den |-> series[g[1]]]]]

\* frame.divide(series, axis=0): every cell of row c over series[c].  A quotient is kept
\* as the pair it is formed from; NaN over anything and anything over NaN are NaN
Divide(frame, series) ==
    [index   |-> frame.index,
     columns |-> frame.columns,
     cell    |-> [g \in {h \in DOMAIN frame.cell : h[1] \in DOMAIN series} |->
                    [num |-> frame.cell[g], den |-> series[g[1]]]]]

\* groupby([by])[val].nunique()
GroupNunique(rows, by, val) ==
    [p \in {r[by] : r \in rows} |-> Cardinality({r[val] : r \in {s \in rows : s[by] = p}})]

RECURSIVE SumOver(_, _)
SumOver(s, D) ==
    IF D = {} THEN 0
    ELSE LET x == CHOOSE x \in D : TRUE IN s[x] + SumOver(s, D \ {x})

SeriesSum(s) == SumOver(s, DOMAIN s)
SeriesSumSq(s) == SumOver([x \in DOMAIN s |-> s[x] * s[x]], DOMAIN s)

\* Series.std() raises for fewer than two values (as statistics.stdev does)
StdRaisesBelowTwo(s) == Cardinality(DOMAIN s) < 2
\* Series.std() never raises: for fewer than two values it is NaN
StdRaises(s) == FALSE

\* c > s.mean() + 2 * s.std(ddof=0), the population standard deviation
AboveMeanPlus2PopulationStd(c, s) ==
    LET n == Cardinality(DOMAIN s)
        S == SeriesSum(s)
        Q == SeriesSumSq(s)
    IN  /\ n > 0
        /\ n * c - S > 0
        /\ (n * c - S) * (n * c - S) > 4 * (n * Q - S * S)

\* |c - s.mean()| > 2 * s.std()
AwayFromMeanBy2Std(c, s) ==
    LET n == Cardinality(DOMAIN s)
        S == SeriesSum(s)
        Q == SeriesSumSq(s)
    IN  /\ n - 1 > 0
        /\ (n * c - S) * (n * c - S) * (n - 1) > 4 * n * (n * Q - S * S)

\* c > s.mean() + 2 * s.std().  Series.std() is the sample standard deviation
\* (ddof=1): with n values of sum S and sum of squares Q,
\*     mean = S / n,   std^2 = (Q - S^2 / n) / (n - 1) = (n Q - S^2) / (n (n - 1)).
\* For n = 1 the std is NaN and every comparison with NaN is False.  For n > 1,
\* std >= 0, so c > mean + 2 std  iff  n c - S > 0 and
\*     (n c - S)^2 / n^2 > 4 (n Q - S^2) / (n (n - 1)),
\* i.e. (n c - S)^2 (n - 1) > 4 n (n Q - S^2), which is compared in integers.
AboveMeanPlus2Std(c, s) ==
    LET n == Cardinality(DOMAIN s)
        S == SeriesSum(s)
        Q == SeriesSumSq(s)
    IN  /\ n - 1 > 0
        /\ n * c - S > 0
        /\ (n * c - S) * (n * c - S) * (n - 1) > 4 * n * (n * Q - S * S)

\* s[s > s.mean() + 2 * s.std()]
FilterOutliers(s) == [p \in {q \in DOMAIN s : AboveMeanPlus2Std(s[q], s)} |-> s[p]]

\* the f-string of lines 61-67
Summary(counts, rates, outliers) ==
    [cohorts   |-> Cardinality(counts.index),
     retention |-> rates,
     churn     |-> IF DOMAIN outliers # {} THEN [text |-> "outliers", series |-> outliers]
                   ELSE [text |-> "No extreme churn detected.", series |-> EmptySeries]]

NoSummary == [cohorts |-> 0, retention |-> EmptyFrame,
              churn |-> [text |-> "", series |-> EmptySeries]]


---------------------------------------------------------------------------
(* The scripts.                                                            *)

Apps == {"Cohort", "DCF", "FinanceGPT", "Forecaster"}

\* os.getenv("GROQ_API_KEY"): None when the variable is not set, else its text
NoKey == "<None>"
KeyValues == {NoKey, "", "gsk_live"}

\* the check is left out
KeyNeverMissing(k) == FALSE
\* not GROQ_API_KEY
KeyMissing(k) == k = NoKey \/ k = ""

\* files the FinanceGPT uploader may return in one run
MaxFiles == 2
\* len(model_options)
NumModelOptions == 5
\* len(selected_models) != 3
RequiredModels == 3
\* values of the two rate inputs of the DCF script, in percent
RatePcts == {0, 2, 10}

(* TFF-AI/Company-LLM.py: its data *)

Pages == {"Dashboard", "Scenario Analysis", "Forecasting", "Budgeting", "Report Generation"}

CategoryColumn == "Category"
ExpensesColumn == "Expenses ($M)"
VarianceColumn == "Variance ($M)"

\* rows a budget table may have after editing
MaxBudgetRows == 3
\* the longest forecast horizon entered, in months
MaxHorizon == 2

BudgetRow(cat, tenths) ==
    [c \in {CategoryColumn, ExpensesColumn} |-> IF c = CategoryColumn THEN cat ELSE tenths]

\* expenses_data, the amounts in tenths of a million: 1.5, 2.0, 1.0
expenses_data ==
    [columns |-> {CategoryColumn, ExpensesColumn},
     rows    |-> <<BudgetRow("Marketing", 15), BudgetRow("Operations", 20), BudgetRow("R&D", 10)>>]

\* amounts typed into the editor
ExpenseValues == {expenses_data.rows[i][ExpensesColumn] : i \in DOMAIN expenses_data.rows}

\* the row with column col set to v, the column added when the row lacks it
SetCell(row, col, v) == [c \in (DOMAIN row) \cup {col} |-> IF c = col THEN v ELSE row[c]]

\* st.data_editor(t, num_rows="dynamic"): a copy of t as the user left it: untouched,
\* with one amount changed, with the last row deleted, or with a row added
EditorResults(t) ==
    {t}
      \cup {[t EXCEPT !.rows[i] = SetCell(t.rows[i], ExpensesColumn, v)] :
               i \in DOMAIN t.rows, v \in ExpenseValues}
      \cup (IF t.rows = <<>> THEN {}
            ELSE {[t EXCEPT !.rows = SubSeq(t.rows, 1, Len(t.rows) - 1)]})
      \cup (IF Len(t.rows) >= MaxBudgetRows THEN {}
            ELSE {[t EXCEPT !.rows = Append(t.rows,
                                        [c \in t.columns |->
                                            IF c = CategoryColumn THEN "New"
                                            ELSE IF c = ExpensesColumn THEN v ELSE 0])] :
                     v \in ExpenseValues})

\* edited_df['Variance ($M)'] = edited_df['Expenses ($M)']
\*     - edited_df.get('Actual ($M)', edited_df['Expenses ($M)'])
\* no table has the column 'Actual ($M)', so the default is taken
WithVariance(t) ==
    [columns |-> t.columns \cup {VarianceColumn},
     rows    |-> [i \in DOMAIN t.rows |->
                     SetCell(t.rows[i], VarianceColumn,
                             t.rows[i][ExpensesColumn] - t.rows[i][ExpensesColumn])]]

ForecastModels == {"ARIMA", "Prophet", "Exponential Smoothing"}

\* st.session_state.forecast_data: None, or the forecast_df of a model over a horizon
NoForecast == [is_none |-> TRUE, model |-> "", horizon |-> 0]
ForecastDf(model, horizon) == [is_none |-> FALSE, model |-> model, horizon |-> horizon]

\* the names bound by the Dashboard branch
KpiNames == {"total_revenue", "profit_margin", "cash_flow"}

\* the run's locals before the sidebar: the page, the button that returned True, the
\* checked boxes of the report page, the names bound so far, the lines of the PDF
NoLocals == [page |-> "none", clicked |-> "none", checked |-> {}, defined |-> {}, pdf |-> <<>>]

Cleared ==
    /\ upload' = NoFile
    /\ sales_data' = NoFile
    /\ cohort_counts' = EmptyFrame
    /\ cohort_sizes' = EmptySeries
    /\ retention_rate' = EmptyFrame
    /\ extreme_churn' = EmptySeries
    /\ churn_outliers' = EmptySeries
    /\ cohort_summary' = NoSummary
    /\ shown' = {}
    /\ files_read' = 0
    /\ llm_calls' = 0
    /\ local' = NoLocals

Init ==
    /\ key \in KeyValues
    /\ app = "none"
    /\ pc = "idle"
    /\ status = "idle"
    /\ upload = NoFile
    /\ sales_data = NoFile
    /\ cohort_counts = EmptyFrame
    /\ cohort_sizes = EmptySeries
    /\ retention_rate = EmptyFrame
    /\ extreme_churn = EmptySeries
    /\ churn_outliers = EmptySeries
    /\ cohort_summary = NoSummary
    /\ shown = {}
    /\ files_read = 0
    /\ llm_calls = 0
    /\ session_state = <<>>
    /\ local = NoLocals

CohortData == <<upload, sales_data, cohort_counts, cohort_sizes, retention_rate,
                extreme_churn, churn_outliers, cohort_summary>>

\* the run ends: by falling off the script, by st.stop() or by an uncaught exception
Ends(how) == pc' = "end" /\ status' = how
Goes(to) == pc' = to /\ status' = status

\* Streamlit runs the script from its first line: on page load and on every interaction
StartRun(a) ==
    /\ pc \in {"idle", "end"}
    /\ app' = a
    /\ pc' = "KeyCheck"
    /\ status' = "running"
    /\ Cleared
    /\ UNCHANGED <<key, session_state>>

FirstStep(a) ==
    CASE a = "Cohort"     -> "Cohort.Uploader"
      [] a = "DCF"        -> "DCF.Model"
      [] a = "FinanceGPT" -> "FinanceGPT.ImportCheck"
      [] a = "Forecaster" -> "Forecaster.Uploader"

\* load_dotenv(); GROQ_API_KEY = os.getenv(...); if not GROQ_API_KEY: st.error; st.stop
CheckKey ==
    /\ pc = "KeyCheck"
    /\ IF KeyMissing(key)
       THEN shown' = shown \cup {"error: API Key is missing"} /\ Ends("stopped")
       ELSE shown' = shown /\ Goes(FirstStep(app))
    /\ UNCHANGED <<key, app, session_state, local, CohortData, files_read, llm_calls>>

(* Cohort_Analysis/app.py *)

\* st.title, st.write, st.file_uploader, if uploaded_file:
CohortUploader(U) ==
    /\ pc = "Cohort.Uploader"
    /\ shown' = shown \cup {"title", "uploader"}
    /\ \E u \in U \cup {NoFile} :
          /\ upload' = u
          /\ IF u = NoFile THEN Ends("finished") ELSE Goes("Cohort.ReadExcel")
    /\ UNCHANGED <<key, app, session_state, local, sales_data, cohort_counts, cohort_sizes, retention_rate,
                   extreme_churn, churn_outliers, cohort_summary, files_read, llm_calls>>

\* sales_data = pd.read_excel(uploaded_file)
ReadExcel ==
    /\ pc = "Cohort.ReadExcel"
    /\ sales_data' = upload
    /\ files_read' = files_read + 1
    /\ Goes("Cohort.ParseDate")
    /\ UNCHANGED <<key, app, session_state, local, upload, cohort_counts, cohort_sizes, retention_rate,
                   extreme_churn, churn_outliers, cohort_summary, shown, llm_calls>>

\* sales_data['Date'] = pd.to_datetime(sales_data['Date']): the cells of a date column
\* of a sheet are read as timestamps already
ParseDate ==
    /\ pc = "Cohort.ParseDate"
    /\ IF HasColumn(sales_data, "Date") THEN Goes("Cohort.Derive") ELSE Ends("KeyError")
    /\ UNCHANGED <<key, app, session_state, local, CohortData, shown, files_read, llm_calls>>

\* lines 32-34
Derive ==
    /\ pc = "Cohort.Derive"
    /\ LET d == DeriveColumns(sales_data)
       IN  /\ sales_data' = d.frame
           /\ IF d.error = "none" THEN Goes("Cohort.Pivot") ELSE Ends(d.error)
    /\ UNCHANGED <<key, app, session_state, local, upload, cohort_counts, cohort_sizes, retention_rate,
                   extreme_churn, churn_outliers, cohort_summary, shown, files_read, llm_calls>>

\* lines 37-39; iloc[:, 0] of a frame without columns raises IndexError
Pivot ==
    /\ pc = "Cohort.Pivot"
    /\ LET counts == PivotNunique(sales_data.rows, "CohortMonth", "CohortIndex", "Customer_ID")
       IN  /\ cohort_counts' = counts
           /\ IF counts.columns = {}
              THEN /\ Ends("IndexError")
                   /\ UNCHANGED <<cohort_sizes, retention_rate>>
              ELSE /\ cohort_sizes' = FirstColumn(counts)
                   /\ retention_rate' = Divide(counts, FirstColumn(counts))
                   /\ Goes("Cohort.Outliers")
    /\ UNCHANGED <<key, app, session_state, local, upload, sales_data, extreme_churn, churn_outliers,
                   cohort_summary, shown, files_read, llm_calls>>

\* lines 42-43
Outliers ==
    /\ pc = "Cohort.Outliers"
    /\ LET churn == GroupNunique(sales_data.rows, "PurchaseMonth", "Customer_ID")
       IN  /\ extreme_churn' = churn
           /\ IF StdRaises(churn)
              THEN Ends("StatisticsError") /\ UNCHANGED churn_outliers
              ELSE churn_outliers' = FilterOutliers(churn) /\ Goes("Cohort.Render")
    /\ UNCHANGED <<key, app, session_state, local, upload, sales_data, cohort_counts, cohort_sizes,
                   retention_rate, cohort_summary, shown, files_read, llm_calls>>

\* lines 46-70: the heatmap, the summary, the button
Render ==
    /\ pc = "Cohort.Render"
    /\ shown' = shown \cup {"heatmap", "commentary button"}
    /\ cohort_summary' = Summary(cohort_counts, retention_rate, churn_outliers)
    /\ \E pressed \in BOOLEAN :
          IF pressed THEN Goes("Cohort.Commentary") ELSE Ends("finished")
    /\ UNCHANGED <<key, app, session_state, local, upload, sales_data, cohort_counts, cohort_sizes,
                   retention_rate, extreme_churn, churn_outliers, files_read, llm_calls>>

\* lines 71-168: the chat completion, the slide deck, the e-mail draft, the download
Commentary ==
    /\ pc = "Cohort.Commentary"
    /\ llm_calls' = llm_calls + 1
    /\ \E answered \in BOOLEAN :
          IF answered
          THEN shown' = shown \cup {"email draft", "download button"} /\ Ends("finished")
          ELSE shown' = shown /\ Ends("APIError")
    /\ UNCHANGED <<key, app, session_state, local, CohortData, files_read>>

(* DCF-Agent/DCF.py *)

\* lines 17-42: the inputs and the valuation; the terminal value divides by
\* discount_rate - terminal_growth_rate
DCFModel ==
    /\ pc = "DCF.Model"
    /\ shown' = shown \cup {"title", "inputs"}
    /\ \E discount \in RatePcts, terminal \in RatePcts :
          IF discount = terminal THEN Ends("ZeroDivisionError") ELSE Goes("DCF.Display")
    /\ UNCHANGED <<key, app, session_state, local, CohortData, files_read, llm_calls>>

\* lines 44-83
DCFDisplay ==
    /\ pc = "DCF.Display"
    /\ shown' = shown \cup {"table", "chart", "summary", "commentary button"}
    /\ \E pressed \in BOOLEAN :
          IF pressed THEN Goes("DCF.Commentary") ELSE Ends("finished")
    /\ UNCHANGED <<key, app, session_state, local, CohortData, files_read, llm_calls>>

\* lines 84-97
DCFCommentary ==
    /\ pc = "DCF.Commentary"
    /\ llm_calls' = llm_calls + 1
    /\ \E answered \in BOOLEAN :
          IF answered
          THEN shown' = shown \cup {"commentary"} /\ Ends("finished")
          ELSE shown' = shown /\ Ends("APIError")
    /\ UNCHANGED <<key, app, session_state, local, CohortData, files_read>>

(* FinanceGPT/app.py *)

\* lines 20-24
FinanceImportCheck ==
    /\ pc = "FinanceGPT.ImportCheck"
    /\ \E installed \in BOOLEAN :
          IF installed
          THEN shown' = shown /\ Goes("FinanceGPT.Uploads")
          ELSE shown' = shown \cup {"error: openpyxl is missing"} /\ Ends("stopped")
    /\ UNCHANGED <<key, app, session_state, local, CohortData, files_read, llm_calls>>

\* lines 27-51
FinanceUploads ==
    /\ pc = "FinanceGPT.Uploads"
    /\ \E n \in 0 .. MaxFiles :
          /\ files_read' = n
          /\ shown' = shown \cup {"uploader"} \cup (IF n > 0 THEN {"files processed"} ELSE {})
    /\ Goes("FinanceGPT.Models")
    /\ UNCHANGED <<key, app, session_state, local, CohortData, llm_calls>>

\* lines 54-70
FinanceModels ==
    /\ pc = "FinanceGPT.Models"
    /\ \E selected \in 0 .. NumModelOptions :
          IF selected # RequiredModels
          THEN shown' = shown \cup {"warning: select exactly 3 models"} /\ Ends("stopped")
          ELSE shown' = shown /\ Goes("FinanceGPT.Ask")
    /\ UNCHANGED <<key, app, session_state, local, CohortData, files_read, llm_calls>>

\* lines 73-76
FinanceAsk ==
    /\ pc = "FinanceGPT.Ask"
    /\ shown' = shown \cup {"question", "answer button"}
    /\ \E pressed \in BOOLEAN :
          IF pressed THEN Goes("FinanceGPT.Answer") ELSE Ends("finished")
    /\ UNCHANGED <<key, app, session_state, local, CohortData, files_read, llm_calls>>

\* lines 77-114: one completion per selected model, each inside try/except
FinanceAnswer ==
    /\ pc = "FinanceGPT.Answer"
    /\ llm_calls' = llm_calls + RequiredModels
    /\ shown' = shown \cup {"answers"}
    /\ Ends("finished")
    /\ UNCHANGED <<key, app, session_state, local, CohortData, files_read>>

(* Forecaster/app.py *)

\* lines 18-24
ForecasterUploader ==
    /\ pc = "Forecaster.Uploader"
    /\ shown' = shown \cup {"title", "uploader"}
    /\ \E uploaded \in BOOLEAN :
          IF uploaded THEN Goes("Forecaster.Forecast") ELSE Ends("finished")
    /\ UNCHANGED <<key, app, session_state, local, CohortData, files_read, llm_calls>>

\* lines 25-61: read, rename, fit, predict, plot
ForecasterForecast ==
    /\ pc = "Forecaster.Forecast"
    /\ files_read' = files_read + 1
    /\ \E fitted \in BOOLEAN :
          IF fitted
          THEN shown' = shown \cup {"preview", "forecast", "chart"} /\ Goes("Forecaster.Commentary")
          ELSE shown' = shown \cup {"preview"} /\ Ends("ValueError")
    /\ UNCHANGED <<key, app, session_state, local, CohortData, llm_calls>>

\* lines 64-85
ForecasterCommentary ==
    /\ pc = "Forecaster.Commentary"
    /\ llm_calls' = llm_calls + 1
    /\ \E answered \in BOOLEAN :
          IF answered
          THEN shown' = shown \cup {"commentary"} /\ Ends("finished")
          ELSE shown' = shown /\ Ends("APIError")
    /\ UNCHANGED <<key, app, session_state, local, CohortData, files_read>>

(* TFF-AI/Company-LLM.py *)

\* lines 1-51: the imports, the dummy data, the page configuration.  The script has
\* no check of GROQ_API_KEY
StartFPA ==
    /\ pc \in {"idle", "end"}
    /\ app' = "FPA"
    /\ pc' = "FPA.Sidebar"
    /\ status' = "running"
    /\ Cleared
    /\ UNCHANGED <<key, session_state>>

\* page = st.sidebar.radio(...)
FPASidebar ==
    /\ pc = "FPA.Sidebar"
    /\ \E p \in Pages : local' = [local EXCEPT !.page = p]
    /\ Goes("FPA.SessionInit")
    /\ UNCHANGED <<key, app, session_state, CohortData, shown, files_read, llm_calls>>

\* the initialisation is done whether or not the name is in st.session_state
AlwaysInit(name, ss) == TRUE
\* if name not in st.session_state
NeedsInit(name, ss) == name \notin DOMAIN ss

\* lines 58-61
InitSession(ss) ==
    [k \in (DOMAIN ss) \cup {"budget_data", "forecast_data"} |->
        IF k = "budget_data" /\ NeedsInit(k, ss) THEN expenses_data
        ELSE IF k = "forecast_data" /\ NeedsInit(k, ss) THEN NoForecast
        ELSE ss[k]]

FPASessionInit ==
    /\ pc = "FPA.SessionInit"
    /\ session_state' = InitSession(session_state)
    /\ Goes("FPA.Page")
    /\ UNCHANGED <<key, app, local, CohortData, shown, files_read, llm_calls>>

\* lines 64-82: the KPIs are bound in this branch only
FPADashboard ==
    /\ pc = "FPA.Page"
    /\ local.page = "Dashboard"
    /\ local' = [local EXCEPT !.defined = @ \cup KpiNames]
    /\ shown' = shown \cup {"kpis", "revenue chart"}
    /\ Ends("finished")
    /\ UNCHANGED <<key, app, session_state, CohortData, files_read, llm_calls>>

\* lines 85-112: reads st.session_state.budget_data
FPAScenario ==
    /\ pc = "FPA.Page"
    /\ local.page = "Scenario Analysis"
    /\ local' = [local EXCEPT !.defined = @ \cup {"adjusted_total_revenue",
                                                   "adjusted_profit_margin", "adjusted_cash_flow"}]
    /\ shown' = shown \cup {"adjusted kpis", "adjusted revenue chart"}
    /\ Ends("finished")
    /\ UNCHANGED <<key, app, session_state, CohortData, files_read, llm_calls>>

\* lines 115-147: the fit of the chosen model may raise; forecast_data is assigned
\* after it
FPAForecasting ==
    /\ pc = "FPA.Page"
    /\ local.page = "Forecasting"
    /\ \E model_type \in ForecastModels, forecast_horizon \in 1 .. MaxHorizon,
          pressed \in BOOLEAN, fitted \in BOOLEAN :
          IF ~pressed
          THEN /\ Ends("finished")
               /\ UNCHANGED <<session_state, local, shown>>
          ELSE /\ local' = [local EXCEPT !.clicked = "Generate Forecast"]
               /\ IF fitted
                  THEN /\ session_state' = [session_state EXCEPT
                              !["forecast_data"] = ForecastDf(model_type, forecast_horizon)]
                       /\ shown' = shown \cup {"forecast chart"}
                       /\ Ends("finished")
                  ELSE /\ Ends("ValueError")
                       /\ UNCHANGED <<session_state, shown>>
    /\ UNCHANGED <<key, app, CohortData, files_read, llm_calls>>

\* lines 150-164: edited_df is a copy of budget_data; once saved it is the object in
\* st.session_state, so the Variance column of line 162 is added to the saved table
FPABudgeting ==
    /\ pc = "FPA.Page"
    /\ local.page = "Budgeting"
    /\ \E edited_df \in EditorResults(session_state["budget_data"]), pressed \in BOOLEAN :
          IF pressed
          THEN /\ session_state' = [session_state EXCEPT !["budget_data"] = WithVariance(edited_df)]
               /\ local' = [local EXCEPT !.clicked = "Save Budget"]
               /\ shown' = shown \cup {"budget saved", "variance table"}
          ELSE /\ shown' = shown \cup {"variance table"}
               /\ UNCHANGED <<session_state, local>>
    /\ Ends("finished")
    /\ UNCHANGED <<key, app, CohortData, files_read, llm_calls>>

ReportBoxes == {"Include Dashboard KPIs", "Include Forecast Chart", "Include Budget Table"}

RECURSIVE Repeat(_, _)
Repeat(line, n) == IF n = 0 THEN <<>> ELSE <<line>> \o Repeat(line, n - 1)

\* lines 187-195: the forecast rows and the budget rows of the report
ForecastLines(checked, ss) ==
    IF "Include Forecast Chart" \in checked /\ ~ss["forecast_data"].is_none
    THEN <<"Forecast Data">> \o Repeat("forecast row", ss["forecast_data"].horizon)
    ELSE <<>>

BudgetLines(checked, ss) ==
    IF "Include Budget Table" \in checked
    THEN <<"Budget Data">> \o [i \in DOMAIN ss["budget_data"].rows |->
                                 ss["budget_data"].rows[i][CategoryColumn]]
    ELSE <<>>

\* lines 182-185: the f-strings read total_revenue, profit_margin and cash_flow
KpiLines == <<"Dashboard KPIs", "Total Revenue", "Profit Margin", "Cash Flow">>

\* lines 167-199
FPAReport ==
    /\ pc = "FPA.Page"
    /\ local.page = "Report Generation"
    /\ \E checked \in SUBSET ReportBoxes, pressed \in BOOLEAN :
          IF ~pressed
          THEN /\ local' = [local EXCEPT !.checked = checked]
               /\ shown' = shown
               /\ Ends("finished")
          ELSE IF "Include Dashboard KPIs" \in checked /\ ~(KpiNames \subseteq local.defined)
          THEN /\ local' = [local EXCEPT !.checked = checked,
                                         !.clicked = "Generate PDF Report",
                                         !.pdf = <<"The Financial Fox FP&A Report", "Dashboard KPIs">>]
               /\ shown' = shown
               /\ Ends("NameError")
          ELSE /\ local' = [local EXCEPT
                              !.checked = checked,
                              !.clicked = "Generate PDF Report",
                              !.pdf = <<"The Financial Fox FP&A Report">>
                                        \o (IF "Include Dashboard KPIs" \in checked
                                            THEN KpiLines ELSE <<>>)
                                        \o ForecastLines(checked, session_state)
                                        \o BudgetLines(checked, session_state)]
               /\ shown' = shown \cup {"download button"}
               /\ Ends("finished")
    /\ UNCHANGED <<key, app, session_state, CohortData, files_read, llm_calls>>

CohortSteps ==
    \/ ReadExcel
    \/ ParseDate
    \/ Derive
    \/ Pivot
    \/ Outliers
    \/ Render
    \/ Commentary

Next ==
    \/ \E a \in Apps : StartRun(a)
    \/ CheckKey
    \/ CohortUploader(Uploads)
    \/ CohortSteps
    \/ DCFModel
    \/ DCFDisplay
    \/ DCFCommentary
    \/ FinanceImportCheck
    \/ FinanceUploads
    \/ FinanceModels
    \/ FinanceAsk
    \/ FinanceAnswer
    \/ ForecasterUploader
    \/ ForecasterForecast
    \/ ForecasterCommentary

Spec == Init /\ [][Next]_vars

\* the cohort script alone, on tables over the long calendar
NextChurn ==
    \/ StartRun("Cohort")
    \/ CheckKey
    \/ CohortUploader(ChurnUploads)
    \/ CohortSteps

SpecChurn == Init /\ [][NextChurn]_vars

\* the cohort script alone, on tables over the dates of the worked example
NextExample ==
    \/ StartRun("Cohort")
    \/ CheckKey
    \/ CohortUploader(ExampleUploads)
    \/ CohortSteps

SpecExample == Init /\ [][NextExample]_vars

\* the company FP&A tool: any sequence of runs, each on a page of the sidebar
NextFPA ==
    \/ StartFPA
    \/ FPASidebar
    \/ FPASessionInit
    \/ FPADashboard
    \/ FPAScenario
    \/ FPAForecasting
    \/ FPABudgeting
    \/ FPAReport

SpecFPA == Init /\ [][NextFPA]_vars


---------------------------------------------------------------------------
(* The claims.  They are stated over the uploaded rows, not over the       *)
(* operators the computation is built from.                                *)

Derived == app = "Cohort" /\ "CohortIndex" \in sales_data.columns
Pivoted == app = "Cohort" /\ retention_rate.index # {}
OutliersComputed == app = "Cohort" /\ pc \in {"Cohort.Render", "Cohort.Commentary", "end"}
                      /\ DOMAIN extreme_churn # {}
Summarised == app = "Cohort" /\ cohort_summary # NoSummary

RowsOf(c) == {r \in upload.rows : r.Customer_ID = c}
CustomersUploaded == {r.Customer_ID : r \in upload.rows}

\* t is a date of customer c and no date of c is earlier
IsFirstDate(c, t) ==
    /\ \E r \in RowsOf(c) : r.Date = t
    /\ \A r \in RowsOf(c) : DateLE(t, r.Date)

\* the calendar month (year, month) a period label names
MonthOfLabel(p) == [y |-> DateOf(p, 1).y, m |-> DateOf(p, 1).m]
MonthOfDate(t) == [y |-> t.y, m |-> t.m]

\* whole calendar months from month a to month b
MonthsFrom(a, b) == 12 * (b.y - a.y) + (b.m - a.m)

\* the cohort of customer c is the month labelled p
InCohort(c, p) == \E t \in {r.Date : r \in RowsOf(c)} :
                     IsFirstDate(c, t) /\ MonthOfDate(t) = MonthOfLabel(p)

\* the customers of cohort p with a transaction k months after p
ActiveAt(p, k) ==
    {c \in CustomersUploaded :
        /\ InCohort(c, p)
        /\ \E r \in RowsOf(c) : MonthsFrom(MonthOfLabel(p), MonthOfDate(r.Date)) = k}

\* C1: every row of a customer carries the same CohortMonth, and it is the calendar
\* month that holds the customer's earliest Date in the uploaded table.
C1_OneCohortPerCustomer ==
    Derived =>
        /\ \A r \in sales_data.rows : InCohort(r.Customer_ID, r.CohortMonth)
        /\ \A r, q \in sales_data.rows :
              r.Customer_ID = q.Customer_ID => r.CohortMonth = q.CohortMonth
        /\ {r.Customer_ID : r \in sales_data.rows} = CustomersUploaded

\* a customer with purchases in two months, beside a customer of a later cohort
C1_Witness ==
    /\ Derived
    /\ \E r, q \in sales_data.rows :
          /\ r.Customer_ID = q.Customer_ID
          /\ r.PurchaseMonth # q.PurchaseMonth
    /\ \E r, q \in sales_data.rows : r.CohortMonth # q.CohortMonth

\* C2: CohortIndex is >= 0 in every row, and every customer has a row with
\* CohortIndex = 0.
C2_IndexNonNegative ==
    Derived =>
        /\ \A r \in sales_data.rows : r.CohortIndex >= 0
        /\ \A c \in CustomersUploaded :
              \E r \in sales_data.rows : r.Customer_ID = c /\ r.CohortIndex = 0

\* a customer with a purchase two months after the first one
C2_Witness ==
    /\ Derived
    /\ \E r \in sales_data.rows : r.CohortIndex = 2

\* C3: the divisor cohort_sizes is the index-0 column of cohort_counts, it has a
\* non-zero value for every cohort, and the rate at index 0 is 1.0 in every row.
C3_IndexZeroIsOne ==
    /\ status # "IndexError"
    /\ Pivoted =>
        /\ 0 \in cohort_counts.columns
        /\ \A k \in cohort_counts.columns : k >= 0
        /\ DOMAIN cohort_sizes = cohort_counts.index
        /\ \A p \in cohort_counts.index :
              /\ ~IsNaN(cohort_counts, p, 0)
              /\ cohort_sizes[p] = cohort_counts.cell[<<p, 0>>]
              /\ cohort_sizes[p] # 0
        /\ retention_rate.index = cohort_counts.index
        /\ \A p \in retention_rate.index :
              /\ ~IsNaN(retention_rate, p, 0)
              /\ retention_rate.cell[<<p, 0>>].den # 0
              /\ retention_rate.cell[<<p, 0>>].num = retention_rate.cell[<<p, 0>>].den

\* a cohort of two customers with a rate below 1.0 at a later index
C3_Witness ==
    /\ Pivoted
    /\ \E g \in DOMAIN retention_rate.cell :
          g[2] > 0 /\ retention_rate.cell[g].num < retention_rate.cell[g].den

\* C4: a defined cell (p, k) of cohort_counts is the number of distinct customers of
\* cohort p with a transaction k months after p, however many rows they have there,
\* and the cell (p, 0) is the number of customers of cohort p.
C4_DistinctCustomers ==
    Pivoted =>
        /\ \A g \in DOMAIN cohort_counts.cell :
              cohort_counts.cell[g] = Cardinality(ActiveAt(g[1], g[2]))
        /\ \A p \in cohort_counts.index :
              /\ <<p, 0>> \in DOMAIN cohort_counts.cell
              /\ cohort_counts.cell[<<p, 0>>]
                   = Cardinality({c \in CustomersUploaded : InCohort(c, p)})

\* a customer with two transactions in one month, one or more months after the cohort month
C4_Witness ==
    /\ Pivoted
    /\ \E r, q \in sales_data.rows :
          /\ r.Customer_ID = q.Customer_ID
          /\ r.CohortIndex = q.CohortIndex
          /\ r.CohortIndex > 0
          /\ r.Date # q.Date

\* C5: a cell (p, k) of cohort_counts, and of retention_rate, holds a number exactly
\* when a customer of cohort p has a transaction k months after p; a cell that holds
\* a number does not hold 0.
C5_MissingIsUndefined ==
    Pivoted =>
        /\ retention_rate.columns = cohort_counts.columns
        /\ DOMAIN cohort_counts.cell \subseteq cohort_counts.index \X cohort_counts.columns
        /\ DOMAIN retention_rate.cell \subseteq cohort_counts.index \X cohort_counts.columns
        /\ \A p \in cohort_counts.index, k \in cohort_counts.columns :
              /\ ~IsNaN(cohort_counts, p, k) <=> ActiveAt(p, k) # {}
              /\ ~IsNaN(retention_rate, p, k) <=> ActiveAt(p, k) # {}
              /\ ~IsNaN(cohort_counts, p, k) => cohort_counts.cell[<<p, k>>] # 0
              /\ ~IsNaN(retention_rate, p, k) => retention_rate.cell[<<p, k>>].num # 0

\* a matrix with an undefined cell: a cohort without a transaction at an index that
\* another cohort has
C5_Witness ==
    /\ Pivoted
    /\ \E p \in cohort_counts.index, k \in cohort_counts.columns :
          IsNaN(cohort_counts, p, k) /\ IsNaN(retention_rate, p, k)


\* the calendar months with a transaction, and the distinct customers of each
UploadedMonths == {MonthOfDate(r.Date) : r \in upload.rows}
CountIn(mo) == Cardinality({r.Customer_ID : r \in {q \in upload.rows : MonthOfDate(q.Date) = mo}})
MonthlyCounts == [mo \in UploadedMonths |-> CountIn(mo)]

\* of the monthly counts cnt: their number n, their sum, and dev2, which is n^2 times
\* the sum of the squared deviations from the mean
CountStats(cnt) ==
    LET n == Cardinality(DOMAIN cnt)
        total == SumOver(cnt, DOMAIN cnt)
    IN  [n |-> n, total |-> total,
         dev2 |-> SumOver([mo \in DOMAIN cnt |-> (n * cnt[mo] - total) * (n * cnt[mo] - total)],
                          DOMAIN cnt)]

AtOrBelowMean(c, st) == st.n * c <= st.total

\* c - mean > 2 sqrt(sum (count_i - mean)^2 / (N - 1)), the divisor N - 1
ExceedsBy2SampleStd(c, st) ==
    /\ st.n > 1
    /\ st.n * c > st.total
    /\ (st.n * c - st.total) * (st.n * c - st.total) * (st.n - 1) > 4 * st.dev2

\* c - mean > 2 sqrt(sum (count_i - mean)^2 / N), the divisor N
ExceedsBy2PopulationStd(c, st) ==
    /\ st.n * c > st.total
    /\ (st.n * c - st.total) * (st.n * c - st.total) * st.n > 4 * st.dev2

\* mean - c > 2 sample standard deviations
BelowBy2SampleStd(c, st) ==
    /\ st.n > 1
    /\ st.n * c < st.total
    /\ (st.n * c - st.total) * (st.n * c - st.total) * (st.n - 1) > 4 * st.dev2

FlaggedMonths == {MonthOfLabel(p) : p \in DOMAIN churn_outliers}

\* C6: a month whose distinct-customer count is at or below the mean of the monthly
\* counts is not in churn_outliers; a month whose count exceeds the mean by more than
\* two standard deviations (Series.std, the sample statistic) is in it.
C6_OneSided ==
    OutliersComputed =>
        LET cnt == MonthlyCounts
            st  == CountStats(cnt)
        IN  \A mo \in DOMAIN cnt :
                /\ AtOrBelowMean(cnt[mo], st) => mo \notin FlaggedMonths
                /\ ExceedsBy2SampleStd(cnt[mo], st) => mo \in FlaggedMonths

\* a month more than two standard deviations below the mean, not flagged
C6_Witness ==
    /\ OutliersComputed
    /\ LET cnt == MonthlyCounts
           st  == CountStats(cnt)
       IN  \E mo \in DOMAIN cnt : BelowBy2SampleStd(cnt[mo], st) /\ mo \notin FlaggedMonths

\* C7 as stated: churn_outliers is the set of months whose count exceeds the mean by
\* more than two population standard deviations (divisor N).
C7_PopulationStd ==
    OutliersComputed =>
        LET cnt == MonthlyCounts
            st  == CountStats(cnt)
        IN  FlaggedMonths = {mo \in DOMAIN cnt : ExceedsBy2PopulationStd(cnt[mo], st)}

\* C7, amended: churn_outliers is exactly the set of calendar months whose count
\* exceeds the mean by more than two sample standard deviations (divisor N - 1) over
\* all months of the dataset, each with its count; with one month it is empty.
C7_SampleStd ==
    OutliersComputed =>
        LET cnt == MonthlyCounts
            st  == CountStats(cnt)
        IN  /\ FlaggedMonths = {mo \in DOMAIN cnt : ExceedsBy2SampleStd(cnt[mo], st)}
            /\ \A p \in DOMAIN churn_outliers : churn_outliers[p] = cnt[MonthOfLabel(p)]
            /\ st.n = 1 => DOMAIN churn_outliers = {}

\* a month above mean + 2 population std that is not above mean + 2 sample std and
\* is not flagged
C7_Witness ==
    /\ OutliersComputed
    /\ LET cnt == MonthlyCounts
           st  == CountStats(cnt)
       IN  \E mo \in DOMAIN cnt :
              /\ ExceedsBy2PopulationStd(cnt[mo], st)
              /\ ~ExceedsBy2SampleStd(cnt[mo], st)
              /\ mo \notin FlaggedMonths

FullSheet == app = "Cohort" /\ upload.columns = RequiredColumns /\ upload.rows # {}
SingleMonth == FullSheet /\ Cardinality(UploadedMonths) = 1

\* C8: when every row of the table falls in one calendar month, the outlier
\* computation raises nothing, churn_outliers is empty and the summary reads
\* 'No extreme churn detected.'
C8_SingleMonth ==
    SingleMonth =>
        /\ status \in {"running", "finished", "APIError"}
        /\ OutliersComputed => DOMAIN churn_outliers = {}
        /\ Summarised => cohort_summary.churn.text = "No extreme churn detected."
        /\ (pc = "end" /\ status = "finished") => Summarised

\* a finished run on a single-month table of two customers
C8_Witness ==
    /\ SingleMonth
    /\ pc = "end"
    /\ status = "finished"
    /\ Cardinality(CustomersUploaded) = 2
    /\ cohort_summary.churn.text = "No extreme churn detected."

LacksRequired == app = "Cohort" /\ upload # NoFile /\ upload.columns # RequiredColumns

C10_NoKeyStopsFirst ==
    (key = NoKey /\ app \in Apps) =>
        /\ pc \in {"KeyCheck", "end"}
        /\ pc = "end" => (status = "stopped" /\ shown = {"error: API Key is missing"})
        /\ pc = "KeyCheck" => (status = "running" /\ shown = {})
        /\ upload = NoFile
        /\ sales_data = NoFile
        /\ cohort_counts = EmptyFrame
        /\ retention_rate = EmptyFrame
        /\ churn_outliers = EmptySeries
        /\ cohort_summary = NoSummary
        /\ files_read = 0
        /\ llm_calls = 0

\* a stopped run of the forecaster without the key
C10_Witness ==
    /\ key = NoKey
    /\ app = "Forecaster"
    /\ pc = "end"
    /\ status = "stopped"


IsExample == app = "Cohort" /\ upload.columns = RequiredColumns /\ upload.rows = ExampleTable

\* the CohortIndex of the rows of customer c dated in month m of 2023
IndicesOf(c, m) ==
    {r.CohortIndex : r \in {q \in sales_data.rows :
                               q.Customer_ID = c /\ q.Date.y = 2023 /\ q.Date.m = m}}

\* a rate cell holds the ratio a / b
IsRatio(cell, a, b) == cell.den # 0 /\ cell.num * b = a * cell.den

\* C11: CohortIndex is 12 * (year difference) + (month difference) between the row's
\* month and the month of the customer's first date, whatever the days of the month:
\* from January 31 to February 1 it is 1.  For the worked example the indices are
\* 0, 1, 0, 2, the only cohort is January 2023, its counts are {0: 2, 1: 1, 2: 1} and
\* its rates {0: 1.0, 1: 0.5, 2: 0.5}.
C11_WholeMonths ==
    /\ Derived =>
          \A r \in sales_data.rows :
              /\ \E t \in {q.Date : q \in upload.rows} :
                    /\ IsFirstDate(r.Customer_ID, t)
                    /\ r.CohortIndex = 12 * (r.Date.y - t.y) + (r.Date.m - t.m)
              /\ (/\ IsFirstDate(r.Customer_ID, [y |-> 2023, m |-> 1, d |-> 31])
                  /\ r.Date = [y |-> 2023, m |-> 2, d |-> 1]) => r.CohortIndex = 1
    /\ (IsExample /\ Derived) =>
          /\ IndicesOf("A", 1) = {0}
          /\ IndicesOf("A", 2) = {1}
          /\ IndicesOf("B", 1) = {0}
          /\ IndicesOf("B", 3) = {2}
    /\ (IsExample /\ Pivoted) =>
          /\ {MonthOfLabel(p) : p \in cohort_counts.index} = {[y |-> 2023, m |-> 1]}
          /\ Cardinality(cohort_counts.index) = 1
          /\ cohort_counts.columns = {0, 1, 2}
          /\ \A p \in cohort_counts.index :
                /\ DOMAIN cohort_counts.cell = {<<p, 0>>, <<p, 1>>, <<p, 2>>}
                /\ cohort_counts.cell[<<p, 0>>] = 2
                /\ cohort_counts.cell[<<p, 1>>] = 1
                /\ cohort_counts.cell[<<p, 2>>] = 1
                /\ DOMAIN retention_rate.cell = {<<p, 0>>, <<p, 1>>, <<p, 2>>}
                /\ IsRatio(retention_rate.cell[<<p, 0>>], 1, 1)
                /\ IsRatio(retention_rate.cell[<<p, 1>>], 1, 2)
                /\ IsRatio(retention_rate.cell[<<p, 2>>], 1, 2)

\* the worked example, after the pivot
C11_Witness == IsExample /\ Pivoted /\ pc = "Cohort.Outliers"

\* a customer first seen on January 31 with a transaction on February 1
C11_WitnessMonthEnd ==
    /\ Derived
    /\ \E r \in sales_data.rows :
          /\ IsFirstDate(r.Customer_ID, [y |-> 2023, m |-> 1, d |-> 31])
          /\ r.Date = [y |-> 2023, m |-> 2, d |-> 1]
          /\ r.CohortIndex = 1


\* C12: a defined cell (p, k) of retention_rate is the ratio of the customers of
\* cohort p active at index k to the customers of cohort p active at index 0, as it
\* comes, and it lies in [0, 1]; the rates of a row are not made monotone.
C12_RawRatio ==
    Pivoted =>
        \A g \in DOMAIN retention_rate.cell :
            /\ retention_rate.cell[g].num = Cardinality(ActiveAt(g[1], g[2]))
            /\ retention_rate.cell[g].den = Cardinality(ActiveAt(g[1], 0))
            /\ retention_rate.cell[g].den > 0
            /\ 0 <= retention_rate.cell[g].num
            /\ retention_rate.cell[g].num <= retention_rate.cell[g].den

\* reactivation: in one cohort the rate at a later index is greater than the rate at
\* an earlier index
C12_Witness ==
    /\ Pivoted
    /\ \E g, h \in DOMAIN retention_rate.cell :
          /\ g[1] = h[1]
          /\ g[2] < h[2]
          /\ retention_rate.cell[g].num * retention_rate.cell[h].den
               < retention_rate.cell[h].num * retention_rate.cell[g].den



\* the value of a name of st.session_state
Budget == session_state["budget_data"]
Forecast == session_state["forecast_data"]
InFPA == app = "FPA"

\* C13: in the company FP&A tool the names of st.session_state stay from run to run;
\* budget_data starts as the default expenses table and afterwards changes only in a
\* step of the Budgeting page in which 'Save Budget' is pressed; forecast_data starts
\* as None and changes only in a step of the Forecasting page in which
\* 'Generate Forecast' is pressed.  No other step (a Dashboard, Scenario Analysis or
\* Report Generation run, a budget edit that is not saved) changes either
C13_SessionPersists ==
    [][/\ DOMAIN session_state \subseteq DOMAIN session_state'
       /\ \A k \in (DOMAIN session_state') \ (DOMAIN session_state) :
             session_state'[k] = IF k = "budget_data" THEN expenses_data ELSE NoForecast
       /\ ("budget_data" \in DOMAIN session_state /\ Budget' # Budget)
             => /\ local'.page = "Budgeting"
                /\ local.clicked = "none"
                /\ local'.clicked = "Save Budget"
       /\ ("forecast_data" \in DOMAIN session_state /\ Forecast' # Forecast)
             => /\ local'.page = "Forecasting"
                /\ local.clicked = "none"
                /\ local'.clicked = "Generate Forecast"]_vars

\* a Report Generation run that ended after a budget was saved and a forecast made
C13_Witness ==
    /\ InFPA
    /\ pc = "end"
    /\ local.page = "Report Generation"
    /\ DOMAIN session_state = {"budget_data", "forecast_data"}
    /\ Budget.rows # expenses_data.rows
    /\ ~Forecast.is_none

\* C14: in the company FP&A tool every run in which 'Generate PDF Report' is pressed
\* ends without an exception and shows the download button, whatever boxes are
\* checked and whatever st.session_state holds; with 'Include Dashboard KPIs' checked
\* the report has the total revenue, the profit margin and the cash flow
C14_ReportCompletes ==
    (InFPA /\ pc = "end" /\ local.clicked = "Generate PDF Report")
       => /\ status = "finished"
          /\ "download button" \in shown
          /\ "Include Dashboard KPIs" \in local.checked
                => \A i \in DOMAIN KpiLines : \E j \in DOMAIN local.pdf : local.pdf[j] = KpiLines[i]

=============================================================================
